---- MODULE Spec2Model ----
(***************************************************************************)
(* A model of epub-builder: the table of contents (src/src/toc.rs) with    *)
(* the TocElement builder (new, raw_title, level, child), the level-based  *)
(* insertion Toc::add / TocElement::add and the two renderers; the         *)
(* EpubBuilder (src/src/epub.rs) that collects files, metadata and the     *)
(* table of contents and renders the documents of the book; and the two    *)
(* zip backends (src/src/zip_library.rs, src/src/zip_command.rs).          *)
(*                                                                         *)
(* Strings are sequences of one-character strings; the fixed pieces of a   *)
(* format! template are kept as single tokens.  A text that may span       *)
(* several lines is the sequence of its "\n"-separated pieces, so the      *)
(* empty string is << <<>> >>.                                             *)
(***************************************************************************)
EXTENDS Integers, Sequences, FiniteSets, TLC

VARIABLES
    toc,    \* Toc.elements: the top-level TocElements
    pool,   \* TocElement values the caller holds and has not yet given away
    added,  \* history: the elements passed to Toc::add, in call order
    last,   \* history: the last operation, its inputs and its result
    epub,   \* the EpubBuilder (its toc is the variable toc)
    zip,    \* a Zip backend the caller drives directly
    log     \* history: the calls made on the builder or the backend, in order

vars == <<toc, pool, added, last, epub, zip, log>>

-----------------------------------------------------------------------------
(* Bounds of the model *)

\* nodes created in one run of Spec
MaxNodes == 4
\* elements the caller holds at once
MaxPool == 2
\* the levels passed to level() in Spec are MinLevel..MaxLevel
MaxLevel == 1
MinLevel == 0 - 1
Levels == MinLevel..MaxLevel

-----------------------------------------------------------------------------
(* Small helpers on sequences *)

Last(s) == s[Len(s)]

Front(s) == SubSeq(s, 1, Len(s) - 1)

RECURSIVE Flatten(_)
\* the concatenation of a sequence of sequences
Flatten(ss) ==
    IF ss = <<>> THEN <<>> ELSE Head(ss) \o Flatten(Tail(ss))

-----------------------------------------------------------------------------
(* TocElement *)

\* raw_title: Option<String> is <<>> for None and <<X>> for Some(X)
None == <<>>

Some(x) == <<x>>

\* TocElement::new: level 1, no raw title, no children
TocElement_new(url, title) ==
    [level |-> 1, url |-> url, title |-> title, raw_title |-> None,
     children |-> <<>>]

TocElement_raw_title(self, title) ==
    [self EXCEPT !.raw_title = Some(title)]

TocElement_level(self, level) ==
    [self EXCEPT !.level = level]

RECURSIVE TocElement_level_up_all(_, _)
\* a level_up that renumbers every descendant, whatever its level
TocElement_level_up_all(self, level) ==
    [self EXCEPT
        !.level = level,
        !.children =
            [i \in 1..Len(self.children) |->
                TocElement_level_up_all(self.children[i], level + 1)]]

RECURSIVE TocElement_level_up(_, _)
\* self.level = level; then every child whose level is <= the new level is
\* itself moved to level + 1, recursively; the other children are left alone
TocElement_level_up(self, level) ==
    [self EXCEPT
        !.level = level,
        !.children =
            [i \in 1..Len(self.children) |->
                IF self.children[i].level <= level
                    THEN TocElement_level_up(self.children[i], level + 1)
                    ELSE self.children[i]]]

\* a child() that leaves a child of its parent's own level alone
ChildAdjusted_lt(self, child) ==
    IF child.level < self.level
        THEN TocElement_level_up(child, self.level + 1)
        ELSE child

\* the child as child() stores it
ChildAdjusted(self, child) ==
    IF child.level <= self.level
        THEN TocElement_level_up(child, self.level + 1)
        ELSE child

TocElement_child(self, child) ==
    [self EXCEPT !.children = Append(self.children, ChildAdjusted(self, child))]

RECURSIVE TocElement_add(_, _)

\* an add with the comparison reversed
TocElement_add_reversed(self, element) ==
    IF self.children # <<>> /\ element.level < Last(self.children).level
        THEN [self EXCEPT !.children =
                 Append(Front(self.children),
                        TocElement_add(Last(self.children), element))]
        ELSE [self EXCEPT !.children = Append(self.children, element)]

TocElement_add(self, element) ==
    IF self.children # <<>> /\ element.level > Last(self.children).level
        THEN [self EXCEPT !.children =
                 Append(Front(self.children),
                        TocElement_add(Last(self.children), element))]
        ELSE [self EXCEPT !.children = Append(self.children, element)]

-----------------------------------------------------------------------------
(* Toc: the value of Toc.elements *)

Toc_new == <<>>

\* the number of nodes of a list of siblings, their descendants included
RECURSIVE CountNodes(_)
CountNodes(elems) ==
    IF elems = <<>> THEN 0
    ELSE 1 + CountNodes(Head(elems).children) + CountNodes(Tail(elems))

\* an is_empty that counts the children too
Toc_is_empty_nodes(elements) == CountNodes(elements) <= 1

Toc_is_empty(elements) == Len(elements) <= 1

\* an add that also goes down into a last element of the same level
Toc_add_ge(elements, element) ==
    IF elements # <<>> /\ element.level >= Last(elements).level
        THEN Append(Front(elements), TocElement_add(Last(elements), element))
        ELSE Append(elements, element)

\* an add that refuses levels below 1 and stores the element at level 1
Toc_add_clamped(elements, element) ==
    LET e == IF element.level < 1 THEN [element EXCEPT !.level = 1] ELSE element
    IN  IF elements # <<>> /\ e.level > Last(elements).level
            THEN Append(Front(elements), TocElement_add(Last(elements), e))
            ELSE Append(elements, e)

\* an add that puts a new top-level element in front of the others
Toc_add_first(elements, element) ==
    IF elements # <<>> /\ element.level > Last(elements).level
        THEN Append(Front(elements), TocElement_add(Last(elements), element))
        ELSE <<element>> \o elements

Toc_add(elements, element) ==
    IF elements # <<>> /\ element.level > Last(elements).level
        THEN Append(Front(elements), TocElement_add(Last(elements), element))
        ELSE Append(elements, element)

-----------------------------------------------------------------------------
(* Texts: a String that may hold line breaks is the sequence of its        *)
(* "\n"-separated pieces; a piece is a sequence of tokens                  *)

EmptyText == << <<>> >>

\* a String without line break
Line(tokens) == <<tokens>>

\* the String "\n"
NL == << <<>>, <<>> >>

\* a + b
Cat(a, b) == Front(a) \o <<Last(a) \o Head(b)>> \o Tail(b)

RECURSIVE Format(_)
\* format!: the parts of the filled template, concatenated
Format(parts) ==
    IF parts = <<>> THEN EmptyText ELSE Cat(Head(parts), Format(Tail(parts)))

\* str::lines: the pieces, without a last piece that is empty
lines(s) == IF Last(s) = <<>> THEN Front(s) ELSE s

\* Vec<String>::join("\n")
join(strings) == IF strings = <<>> THEN EmptyText ELSE Flatten(strings)

\* format!("{:>spaces$}", " "): a space right-aligned in a field of that width
Pad(spaces) == [i \in 1..(IF spaces < 1 THEN 1 ELSE spaces) |-> " "]

\* common::indent: every non-empty line gets level * 2 spaces in front
indent(s, level) ==
    LET ls == lines(s)
        pad == Pad(level * 2)
    IN  join([i \in 1..Len(ls) |->
                 IF ls[i] # <<>> THEN Line(pad \o ls[i]) ELSE Line(ls[i])])

Digits == <<"0", "1", "2", "3", "4", "5", "6", "7", "8", "9">>

RECURSIVE to_string(_)
\* u32::to_string: the decimal digits of n
to_string(n) ==
    IF n < 10 THEN <<Digits[n + 1]>>
    ELSE to_string(n \div 10) \o <<Digits[(n % 10) + 1]>>

RECURSIVE EncodeWith(_, _)
\* every character of s replaced by what table gives for it
EncodeWith(table, s) ==
    IF s = <<>> THEN <<>>
    ELSE (IF Head(s) \in DOMAIN table THEN table[Head(s)] ELSE <<Head(s)>>)
             \o EncodeWith(table, Tail(s))

Amp == <<"&", "a", "m", "p", ";">>

Lt == <<"&", "l", "t", ";">>

Gt == <<"&", "g", "t", ";">>

Quot == <<"&", "q", "u", "o", "t", ";">>

Apos == <<"&", "#", "x", "2", "7", ";">>

\* html_escape::encode_text escapes & < >
encode_text(s) ==
    EncodeWith([c \in {"&", "<", ">"} |->
                   IF c = "&" THEN Amp ELSE IF c = "<" THEN Lt ELSE Gt], s)

\* html_escape::encode_double_quoted_attribute escapes & < > "
encode_double_quoted_attribute(s) ==
    EncodeWith([c \in {"&", "<", ">", "\""} |->
                   IF c = "&" THEN Amp ELSE IF c = "<" THEN Lt
                   ELSE IF c = ">" THEN Gt ELSE Quot], s)

\* common::encode_html: the five special characters escaped when enabled
encode_html(s, enabled) ==
    IF enabled
        THEN EncodeWith([c \in {"&", "<", ">", "\"", "'"} |->
                            IF c = "&" THEN Amp ELSE IF c = "<" THEN Lt
                            ELSE IF c = ">" THEN Gt
                            ELSE IF c = "\"" THEN Quot ELSE Apos], s)
        ELSE s

RECURSIVE trim_start(_)
trim_start(s) ==
    IF s # <<>> /\ Head(s) = " " THEN trim_start(Tail(s)) ELSE s

RECURSIVE trim_end(_)
trim_end(s) ==
    IF s # <<>> /\ Last(s) = " " THEN trim_end(Front(s)) ELSE s

\* str::trim
trim(s) == trim_end(trim_start(s))

-----------------------------------------------------------------------------
(* The renderers *)

RECURSIVE TocElement_render_epub(_, _, _)
RECURSIVE render_epub_each(_, _, _)
RECURSIVE render_epub_each_restart(_, _, _)

\* the loop with every element numbered from the same offset
render_epub_each_restart(elems, offset, escape_html) ==
    IF elems = <<>> THEN [n |-> offset, s |-> <<>>]
    ELSE LET r == TocElement_render_epub(Head(elems), offset, escape_html)
             rest == render_epub_each_restart(Tail(elems), offset, escape_html)
         IN  [n |-> r.n, s |-> <<r.s>> \o rest.s]

\* for child in .. { let (n, s) = child.render_epub(offset, escape_html);
\*                   offset = n; output.push(s); }
render_epub_each(elems, offset, escape_html) ==
    IF elems = <<>> THEN [n |-> offset, s |-> <<>>]
    ELSE LET r == TocElement_render_epub(Head(elems), offset, escape_html)
             rest == render_epub_each(Tail(elems), r.n, escape_html)
         IN  [n |-> rest.n, s |-> <<r.s>> \o rest.s]

\* the title render_epub writes with the raw title escaped like the title
NavTitle_escaped(self) ==
    trim(encode_text(IF self.raw_title # None THEN self.raw_title[1]
                                              ELSE self.title))

\* the title render_epub writes: the escaped title, or the raw title as it
\* is when there is one; trimmed in both cases
NavTitle(self) ==
    trim(IF self.raw_title # None THEN self.raw_title[1]
                                  ELSE encode_text(self.title))

\* (u32, String) is [n, s]
TocElement_render_epub(self, offset, escape_html) ==
    LET id == offset + 1
        sub == render_epub_each(self.children, id, escape_html)
        children == IF self.children = <<>> THEN EmptyText
                    ELSE Cat(NL, indent(join(sub.s), 1))
        idtext == encode_double_quoted_attribute(to_string(id))
    IN  [n |-> sub.n,
         s |-> Format(<<
             Line(<<"<navPoint playOrder=\"">> \o idtext
                      \o <<"\" id=\"navPoint-">> \o idtext \o <<"\">">>), NL,
             Line(<<" ", " ", "<navLabel>">>), NL,
             Line(<<" ", " ", " ", "<text>">> \o NavTitle(self)
                      \o <<"</text>">>), NL,
             Line(<<" ", " ", "</navLabel>">>), NL,
             Line(<<" ", " ", "<content src=\"">>
                      \o encode_double_quoted_attribute(self.url)
                      \o <<"\"/>">>), children, NL,
             Line(<<"</navPoint>">>) >>)]

oul(numbered) == IF numbered THEN "ol" ELSE "ul"

RECURSIVE TocElement_render(_, _, _)

\* the list item of an element that has a title
render_item(self, numbered, escape_html) ==
    LET link == encode_double_quoted_attribute(self.url)
        title == encode_html(self.title, escape_html)
        output == [i \in 1..Len(self.children) |->
                      TocElement_render(self.children[i], numbered, escape_html)]
        children == Format(<<
            Line(<<"<", oul(numbered), ">">>), NL,
            indent(join(output), 1), NL,
            Line(<<"</", oul(numbered), ">">>) >>)
    IN  IF self.children = <<>>
            THEN Line(<<"<li><a href=\"">> \o link \o <<"\">">> \o title
                          \o <<"</a></li>">>)
        ELSE Format(<<
            Line(<<"<li>">>), NL,
            Line(<<" ", " ", "<a href=\"">> \o link \o <<"\">">> \o title
                     \o <<"</a>">>), NL,
            indent(children, 1), NL,
            Line(<<"</li>">>) >>)

\* a render that only drops an untitled element that has no children
TocElement_render_keeps_parents(self, numbered, escape_html) ==
    IF self.title = <<>> /\ self.children = <<>> THEN EmptyText
    ELSE render_item(self, numbered, escape_html)

TocElement_render(self, numbered, escape_html) ==
    IF self.title = <<>> THEN EmptyText
    ELSE render_item(self, numbered, escape_html)

\* a render_epub that goes on numbering where the renders before it stopped
Toc_render_epub_continued(elements, escape_html) ==
    indent(join(render_epub_each(elements, Len(log), escape_html).s), 2)

Toc_render_epub(elements, escape_html) ==
    indent(join(render_epub_each(elements, 0, escape_html).s), 2)

Toc_render(elements, numbered, escape_html) ==
    LET output == [i \in 1..Len(elements) |->
                      TocElement_render(elements[i], numbered, escape_html)]
    IN  indent(Format(<<
            Line(<<"<", oul(numbered), ">">>), NL,
            indent(join(output), 1), NL,
            Line(<<"</", oul(numbered), ">">>) >>), 2)

-----------------------------------------------------------------------------
(* Measures of trees *)

RECURSIVE PreOrder(_)
\* the nodes of a list of siblings in document order: a node, then its
\* children's subtrees left to right, then its next sibling
PreOrder(elems) ==
    IF elems = <<>> THEN <<>>
    ELSE <<Head(elems)>> \o PreOrder(Head(elems).children) \o PreOrder(Tail(elems))

NodeCount(elems) == Len(PreOrder(elems))

-----------------------------------------------------------------------------
(* Paths and the results of fallible calls *)

\* Result<T>: Ok(v) or Err(e), e being the name of the Error variant
Ok(v) == [ok |-> TRUE, err |-> "", val |-> v]

Err(e, v) == [ok |-> FALSE, err |-> e, val |-> v]

\* Path::join: an absolute path replaces the base
Path_join(base, path) ==
    IF path # <<>> /\ Head(path) = "/" THEN path ELSE base \o <<"/">> \o path

\* Path::is_absolute
is_absolute(path) == path # <<>> /\ Head(path) = "/"

\* Path::starts_with(".."): the first component of the path is ..
starts_with_parent(path) ==
    /\ Len(path) >= 2
    /\ path[1] = "."
    /\ path[2] = "."
    /\ Len(path) = 2 \/ path[3] = "/"

\* the positions of s that hold x
Positions(s, x) == {i \in 1..Len(s) : s[i] = x}

-----------------------------------------------------------------------------
(* The zip backends.  An archive is the sequence of its entries; what a    *)
(* file holds is kept only as far as the zip command can tell it apart:    *)
(* plain bytes, or the bytes of an archive                                 *)

Entry(name, method) == [name |-> name, method |-> method]

Mimetype == <<"mimetype">>

OutputEpub == <<"output.epub">>

\* the contents a caller writes
Bytes == "bytes"

\* the bytes of a zip archive that holds one entry
ZipBytes == "zip"

ForeignEntry == Entry(<<"x">>, "Deflated")

NoTempDir == [p \in {} |-> Bytes]

\* ZipLibrary::new: mimetype is started, stored, in the new writer
ZipLibrary_new ==
    [kind |-> "ZipLibrary",
     writer |-> <<Entry(Mimetype, "Stored")>>,
     temp_dir |-> NoTempDir,
     files |-> <<>>]

\* ZipCommand::new: an empty temporary directory and no file recorded
ZipCommand_new ==
    [kind |-> "ZipCommand",
     command |-> <<"zip">>,
     writer |-> <<>>,
     temp_dir |-> NoTempDir,
     files |-> <<>>]

\* ZipLibrary::write_file: start_file refuses a name the archive has
ZipLibrary_write_file(self, path, content) ==
    IF \E i \in 1..Len(self.writer) : self.writer[i].name = path
        THEN Err("ZipErrorWithMessage", self)
        ELSE Ok([self EXCEPT !.writer = Append(@, Entry(path, "Deflated"))])

\* ZipLibrary::generate: the bytes of the finished archive
ZipLibrary_generate(self) == Ok(self.writer)

\* ZipCommand::add_to_tmp_dir: the file is created or overwritten
add_to_tmp_dir(self, path, content) ==
    [self EXCEPT !.temp_dir =
        [p \in (DOMAIN self.temp_dir) \cup {path} |->
            IF p = path THEN content ELSE self.temp_dir[p]]]

ZipCommand_write_file(self, path, content) ==
    IF starts_with_parent(path) \/ is_absolute(path)
        THEN Err("InvalidPath", self)
        ELSE Ok([add_to_tmp_dir(self, path, content) EXCEPT
                    !.files = Append(@, path)])

\* the method zip records for a file added with that compression level
ZipMethod(level) == IF level = 0 THEN "Stored" ELSE "Deflated"

RECURSIVE ZipAdd(_, _, _)
\* zip -<level> output.epub names...: an entry of that name is replaced
\* where it is, a new one goes to the end; the archive itself is skipped
ZipAdd(archive, level, names) ==
    IF names = <<>> THEN archive
    ELSE LET n == Head(names)
             at == {i \in 1..Len(archive) : archive[i].name = n}
             next == IF n = OutputEpub THEN archive
                     ELSE IF at = {}
                         THEN Append(archive, Entry(n, ZipMethod(level)))
                     ELSE [i \in 1..Len(archive) |->
                              IF i \in at THEN Entry(n, ZipMethod(level))
                                          ELSE archive[i]]
         IN  ZipAdd(next, level, Tail(names))

\* the archive the zip command finds in the temporary directory: none, one
\* it cannot read, or the entries of the file written as output.epub
ExistingArchive(self) ==
    IF OutputEpub \notin DOMAIN self.temp_dir THEN Ok(<<>>)
    ELSE IF self.temp_dir[OutputEpub] = ZipBytes THEN Ok(<<ForeignEntry>>)
    ELSE Err("ZipCommandError", <<>>)

\* ZipCommand::generate: mimetype is written to the directory, zip -X0
\* output.epub mimetype, then zip -9 output.epub with the recorded files
ZipCommand_generate(self) ==
    LET dir == add_to_tmp_dir(self, Mimetype, Bytes)
        old == ExistingArchive(dir)
        first == ZipAdd(old.val, 0, <<Mimetype>>)
        names == SelectSeq(dir.files, LAMBDA n : n # OutputEpub)
    IN  IF ~old.ok THEN Err("ZipCommandError", <<>>)
        ELSE IF names = <<>> THEN Err("ZipCommandError", <<>>)
        ELSE Ok(ZipAdd(first, 9, dir.files))

\* Zip::write_file of the backend
Zip_write_file(self, path, content) ==
    IF self.kind = "ZipLibrary"
        THEN ZipLibrary_write_file(self, path, content)
        ELSE ZipCommand_write_file(self, path, content)

\* Zip::generate of the backend
Zip_generate(self) ==
    IF self.kind = "ZipLibrary" THEN ZipLibrary_generate(self)
    ELSE ZipCommand_generate(self)

-----------------------------------------------------------------------------
(* Creating a backend.  What the system answers is an input: whether a     *)
(* temporary directory can be created, what happens when a command is run  *)
(* with -v ("missing": it cannot be started, "fails": it exits with an     *)
(* error status, "works"), and whether the zip library can start its       *)
(* first entry                                                             *)

\* a system where everything works
NoSystem ==
    [tempdir |-> TRUE, commands |-> [c \in {} |-> "works"], library |-> TRUE]

\* ZipCommand::new: fails when the temporary directory cannot be created
ZipCommand_new_on(sys) ==
    IF sys.tempdir THEN Ok(ZipCommand_new) ELSE Err("IoError", ZipCommand_new)

\* ZipLibrary::new: fails when start_file or the write of mimetype fails
ZipLibrary_new_on(sys) ==
    IF sys.library THEN Ok(ZipLibrary_new) ELSE Err("ZipError", ZipLibrary_new)

\* ZipCommand::command
ZipCommand_command(self, command) == [self EXCEPT !.command = command]

\* ZipCommand::test, looking only at whether the command could be started
ZipCommand_test_started(self, sys) ==
    IF sys.commands[self.command] = "missing" THEN Err("IoError", self)
    ELSE Ok(self)

\* ZipCommand::test: the command is run with -v and must exit successfully
ZipCommand_test(self, sys) ==
    IF sys.commands[self.command] = "missing" THEN Err("IoError", self)
    ELSE IF sys.commands[self.command] # "works"
        THEN Err("ZipCommandError", self)
    ELSE Ok(self)

\* ZipCommandOrLibrary::new: ZipCommand::new().map(command).and_then(test)
\* .map(Command).or_else(|_| ZipLibrary::new().map(Library))
ZipCommandOrLibrary_new(command, sys) ==
    LET created == ZipCommand_new_on(sys)
        configured == IF created.ok
                          THEN Ok(ZipCommand_command(created.val, command))
                          ELSE created
        tested == IF configured.ok THEN ZipCommand_test(configured.val, sys)
                  ELSE configured
    IN  IF tested.ok THEN tested ELSE ZipLibrary_new_on(sys)

-----------------------------------------------------------------------------
(* EpubBuilder (src/src/epub.rs).  self is the builder without its toc,    *)
(* which stays the value of the variable toc                               *)

AsciiUpper ==
    <<"A", "B", "C", "D", "E", "F", "G", "H", "I", "J", "K", "L", "M",
      "N", "O", "P", "Q", "R", "S", "T", "U", "V", "W", "X", "Y", "Z">>

AsciiLower ==
    <<"a", "b", "c", "d", "e", "f", "g", "h", "i", "j", "k", "l", "m",
      "n", "o", "p", "q", "r", "s", "t", "u", "v", "w", "x", "y", "z">>

Range(s) == {s[i] : i \in 1..Len(s)}

\* str::to_lowercase
to_lowercase(s) ==
    [i \in 1..Len(s) |->
        IF s[i] \in Range(AsciiUpper)
            THEN AsciiLower[CHOOSE k \in 1..26 : AsciiUpper[k] = s[i]]
            ELSE s[i]]

\* PageDirection::to_string
PageDirection_to_string(d) == IF d = "Rtl" THEN <<"r", "t", "l">>
                                           ELSE <<"l", "t", "r">>

\* a from_str that takes every other word for ltr
PageDirection_from_str_lenient(s) ==
    IF to_lowercase(s) = <<"r", "t", "l">> THEN Ok("Rtl") ELSE Ok("Ltr")

\* PageDirection::from_str
PageDirection_from_str(s) ==
    LET l == to_lowercase(s)
    IN  IF l = <<"r", "t", "l">> THEN Ok("Rtl")
        ELSE IF l = <<"l", "t", "r">> THEN Ok("Ltr")
        ELSE Err("PageDirectionError", l)

\* Metadata::default
Metadata_default ==
    [title |-> <<>>,
     author |-> <<>>,
     lang |-> <<"en">>,
     direction |-> "Ltr",
     generator |-> <<"Rust EPUB library">>,
     toc_name |-> <<"Table Of Contents">>,
     description |-> <<>>,
     subject |-> <<>>,
     license |-> None,
     date_published |-> None,
     date_modified |-> None,
     uuid |-> None]

\* Content::new
Content_new(file, mime) ==
    [file |-> file, mime |-> mime, itemref |-> FALSE, cover |-> FALSE,
     reftype |-> None, title |-> <<>>]

\* EpubBuilder::new: the two META-INF files are written to the zip
EpubBuilder_new(backend) ==
    LET w1 == Zip_write_file(backend, <<"META-INF/container.xml">>, Bytes)
        w2 == Zip_write_file(w1.val,
                  <<"META-INF/com.apple.ibooks.display-options.xml">>, Bytes)
        new == [version |-> "V20",
                direction |-> "Ltr",
                zip |-> backend,
                files |-> <<>>,
                metadata |-> Metadata_default,
                stylesheet |-> FALSE,
                inline_toc |-> FALSE,
                escape_html |-> TRUE,
                meta_opf |-> <<>>]
    IN  IF ~w1.ok THEN Err(w1.err, [new EXCEPT !.zip = w1.val])
        ELSE IF ~w2.ok THEN Err(w2.err, [new EXCEPT !.zip = w2.val])
        ELSE Ok([new EXCEPT !.zip = w2.val])

EpubBuilder_epub_version(self, version) == [self EXCEPT !.version = version]

EpubBuilder_epub_direction(self, direction) ==
    [self EXCEPT !.direction = direction]

EpubBuilder_add_metadata_opf(self, item) ==
    [self EXCEPT !.meta_opf = Append(@, item)]

\* an arm that replaces the values by the new one
PushOrClear_replace(values, value) ==
    IF value = <<>> THEN <<>> ELSE <<value>>

\* the arm of metadata() for author, description and subject
PushOrClear(values, value) ==
    IF value = <<>> THEN <<>> ELSE Append(values, value)

EpubBuilder_metadata(self, key, value) ==
    CASE key = "author" ->
            Ok([self EXCEPT !.metadata.author = PushOrClear(@, value)])
      [] key = "title" -> Ok([self EXCEPT !.metadata.title = value])
      [] key = "lang" -> Ok([self EXCEPT !.metadata.lang = value])
      [] key = "direction" ->
            LET d == PageDirection_from_str(value)
            IN  IF d.ok THEN Ok([self EXCEPT !.metadata.direction = d.val])
                        ELSE Err(d.err, self)
      [] key = "generator" -> Ok([self EXCEPT !.metadata.generator = value])
      [] key = "description" ->
            Ok([self EXCEPT !.metadata.description = PushOrClear(@, value)])
      [] key = "subject" ->
            Ok([self EXCEPT !.metadata.subject = PushOrClear(@, value)])
      [] key = "license" ->
            Ok([self EXCEPT !.metadata.license = Some(value)])
      [] key = "toc_name" -> Ok([self EXCEPT !.metadata.toc_name = value])
      [] OTHER -> Err("InvalidMetadataError", self)

EpubBuilder_escape_html(self, val) == [self EXCEPT !.escape_html = val]

\* an add_resource that puts the file in the linear document
EpubBuilder_add_resource_linear(self, path, content, mime_type) ==
    LET w == Zip_write_file(self.zip, Path_join(<<"OEBPS">>, path), content)
        file == [Content_new(path, mime_type) EXCEPT !.itemref = TRUE]
    IN  IF ~w.ok THEN Err(w.err, [self EXCEPT !.zip = w.val])
        ELSE Ok([self EXCEPT !.zip = w.val, !.files = Append(@, file)])

\* EpubBuilder::add_resource
EpubBuilder_add_resource(self, path, content, mime_type) ==
    LET w == Zip_write_file(self.zip, Path_join(<<"OEBPS">>, path), content)
    IN  IF ~w.ok THEN Err(w.err, [self EXCEPT !.zip = w.val])
        ELSE Ok([self EXCEPT !.zip = w.val,
                             !.files = Append(@, Content_new(path, mime_type))])

\* EpubBuilder::stylesheet
EpubBuilder_stylesheet(self, content) ==
    LET r == EpubBuilder_add_resource(self, <<"stylesheet.css">>, content,
                                      <<"text/css">>)
    IN  IF ~r.ok THEN r ELSE Ok([r.val EXCEPT !.stylesheet = TRUE])

\* an inline_toc that puts toc.xhtml in front of the files
EpubBuilder_inline_toc_first(self, t) ==
    LET file == [Content_new(<<"toc.xhtml">>, <<"application/xhtml+xml">>)
                    EXCEPT !.reftype = Some("Toc"),
                           !.title = self.metadata.toc_name,
                           !.itemref = TRUE]
    IN  [self |-> [self EXCEPT !.inline_toc = TRUE,
                               !.files = <<file>> \o @],
         toc |-> Toc_add(t, TocElement_new(<<"toc.xhtml">>,
                                           self.metadata.toc_name))]

\* EpubBuilder::inline_toc; the result is [self, toc]
EpubBuilder_inline_toc(self, t) ==
    LET file == [Content_new(<<"toc.xhtml">>, <<"application/xhtml+xml">>)
                    EXCEPT !.reftype = Some("Toc"),
                           !.title = self.metadata.toc_name,
                           !.itemref = TRUE]
    IN  [self |-> [self EXCEPT !.inline_toc = TRUE,
                               !.files = Append(@, file)],
         toc |-> Toc_add(t, TocElement_new(<<"toc.xhtml">>,
                                           self.metadata.toc_name))]

\* EpubBuilder::add_cover_image
EpubBuilder_add_cover_image(self, path, content, mime_type) ==
    LET w == Zip_write_file(self.zip, Path_join(<<"OEBPS">>, path), content)
        file == [Content_new(path, mime_type) EXCEPT !.cover = TRUE]
    IN  IF ~w.ok THEN Err(w.err, [self EXCEPT !.zip = w.val])
        ELSE Ok([self EXCEPT !.zip = w.val, !.files = Append(@, file)])

\* EpubContent: the TocElement, the reference type (the bytes are left out)
EpubContent(element, reftype) == [toc |-> element, reftype |-> reftype]

\* the Toc after add_content, were the title not looked at
TocWithContent_always(t, content) == Toc_add(t, content.toc)

\* the Toc after add_content: the element is added if it has a title
TocWithContent(t, content) ==
    IF content.toc.title # <<>> THEN Toc_add(t, content.toc) ELSE t

\* EpubBuilder::add_content; the value of the result is [self, toc]
EpubBuilder_add_content(self, t, content) ==
    LET w == Zip_write_file(self.zip, Path_join(<<"OEBPS">>, content.toc.url),
                            Bytes)
        file == [Content_new(content.toc.url, <<"application/xhtml+xml">>)
                    EXCEPT !.itemref = TRUE,
                           !.reftype = content.reftype,
                           !.title = IF content.reftype # None
                                         THEN content.toc.title ELSE <<>>]
    IN  IF ~w.ok
            THEN Err(w.err, [self |-> [self EXCEPT !.zip = w.val], toc |-> t])
        ELSE Ok([self |-> [self EXCEPT !.zip = w.val,
                                       !.files = Append(@, file)],
                 toc |-> TocWithContent(t, content)])

-----------------------------------------------------------------------------
(* EpubBuilder::generate and the documents it renders.  The templates are  *)
(* filled from a record of named values; a rendered document is kept as    *)
(* that record                                                             *)

\* is_id_char, for the characters the model uses; a token of several
\* characters stands for a name made of id characters
is_id_char(c) ==
    \/ c \in Range(AsciiUpper)
    \/ c = "_"
    \/ c \in Range(AsciiLower)
    \/ c = "-"
    \/ c = "."
    \/ c \in Range(Digits)
    \/ c \in {"toc.xhtml", "stylesheet.css"}

\* to_id: "id_" and the string with every other character replaced by _
to_id(s) ==
    <<"id_">> \o [i \in 1..Len(s) |-> IF is_id_char(s[i]) THEN s[i] ELSE "_"]

\* str::replace('\\', "/")
replace_backslash(s) ==
    [i \in 1..Len(s) |-> IF s[i] = "\\" THEN "/" ELSE s[i]]

\* the guide names of render_opf
GuideType ==
    [Cover |-> "cover", TitlePage |-> "title-page", Toc |-> "toc",
     Index |-> "index", Glossary |-> "glossary",
     Acknowledgements |-> "acknowledgements",
     Bibliography |-> "bibliography", Colophon |-> "colophon",
     Copyright |-> "copyright", Dedication |-> "dedication",
     Epigraph |-> "epigraph", Foreword |-> "foreword", Loi |-> "loi",
     Lot |-> "lot", Notes |-> "notes", Preface |-> "preface",
     Text |-> "text"]

\* the landmark names of render_nav
LandmarkType ==
    [Cover |-> "cover", Text |-> "bodymatter", Toc |-> "toc",
     Bibliography |-> "bibliography", Epigraph |-> "epigraph",
     Foreword |-> "foreword", Preface |-> "preface", Notes |-> "endnotes",
     Loi |-> "loi", Lot |-> "lot", Colophon |-> "colophon",
     TitlePage |-> "titlepage", Index |-> "index", Glossary |-> "glossary",
     Copyright |-> "copyright-page",
     Acknowledgements |-> "acknowledgements", Dedication |-> "dedication"]

\* the id of a file in the manifest
ItemId(content) ==
    IF content.cover THEN <<"cover-image">> ELSE to_id(content.file)

\* the <item> of a file
ItemLine(self, content) ==
    Line(<<"<item media-type=\"">>
             \o encode_double_quoted_attribute(content.mime) \o <<"\" ">>
             \o (IF self.version = "V30" /\ content.cover
                     THEN <<"properties=\"cover-image\" ">> ELSE <<>>)
             \o <<"id=\"">> \o encode_double_quoted_attribute(ItemId(content))
             \o <<"\" href=\"">>
             \o encode_double_quoted_attribute(replace_backslash(content.file))
             \o <<"\"/>">>)

ItemrefLine(content) ==
    Line(<<"<itemref idref=\"">>
             \o encode_double_quoted_attribute(ItemId(content)) \o <<"\"/>">>)

GuideLine(content) ==
    Line(<<"<reference type=\"">>
             \o encode_double_quoted_attribute(
                    <<GuideType[content.reftype[1]]>>)
             \o <<"\" title=\"">>
             \o encode_double_quoted_attribute(content.title)
             \o <<"\" href=\"">>
             \o encode_double_quoted_attribute(content.file) \o <<"\"/>">>)

\* the <meta> of a custom entry
MetaLine(self, meta) ==
    Line(<<"<meta name=\"">> \o encode_html(meta.name, self.escape_html)
             \o <<"\" content=\"">>
             \o encode_html(meta.content, self.escape_html) \o <<"\"/>">>)

CoverMetaLine == Line(<<"<meta name=\"cover\" content=\"cover-image\"/>">>)

IsCover(content) == content.cover

IsItemref(content) == content.itemref

HasReftype(content) == content.reftype # None

\* s with f applied to each of its elements
Map(s, f(_)) == [i \in 1..Len(s) |-> f(s[i])]

\* EpubBuilder::render_opf: the values given to the content.opf template
\* (the dates and the uuid are left out)
render_opf(self) ==
    LET e == self.escape_html
        md == self.metadata
        Described(d) ==
            Line(<<"<dc:description>">> \o encode_html(d, e)
                     \o <<"</dc:description>">>)
        Subject(s) ==
            Line(<<"<dc:subject>">> \o encode_html(s, e) \o <<"</dc:subject>">>)
        Rights(r) ==
            Line(<<"<dc:rights>">> \o encode_html(r, e) \o <<"</dc:rights>">>)
        Meta(m) == MetaLine(self, m)
        Cover(c) == CoverMetaLine
        Item(c) == ItemLine(self, c)
        optional == Map(md.description, Described) \o Map(md.subject, Subject)
                        \o Map(md.license, Rights) \o Map(self.meta_opf, Meta)
                        \o Map(SelectSeq(self.files, IsCover), Cover)
        items == Map(self.files, Item)
        itemrefs == Map(SelectSeq(self.files, IsItemref), ItemrefLine)
        guide == Map(SelectSeq(self.files, HasReftype), GuideLine)
    IN  [author |-> [i \in 1..Len(md.author) |->
                        [id_attr |-> encode_double_quoted_attribute(
                                         to_string(i - 1)),
                         name |-> encode_html(md.author[i], e)]],
         lang |-> encode_text(md.lang),
         direction |-> PageDirection_to_string(md.direction),
         title |-> encode_html(md.title, e),
         generator_attr |-> encode_double_quoted_attribute(md.generator),
         toc_name |-> encode_html(md.toc_name, e),
         toc_name_attr |-> encode_double_quoted_attribute(md.toc_name),
         optional |-> indent(join(optional), 2),
         items |-> indent(join(items), 2),
         itemrefs |-> indent(join(itemrefs), 2),
         guide |-> indent(join(guide), 2)]

\* EpubBuilder::render_toc: the values given to the toc.ncx template
render_toc(self, t) ==
    [toc_name |-> encode_html(self.metadata.toc_name, self.escape_html),
     nav_points |-> Toc_render_epub(t, self.escape_html)]

\* the landmark of a file that has a reference type and a title
LandmarkLine(self, file) ==
    Line(<<"<li><a epub:type=\"">>
             \o encode_double_quoted_attribute(
                    <<LandmarkType[file.reftype[1]]>>)
             \o <<"\" href=\"">> \o encode_double_quoted_attribute(file.file)
             \o <<"\">">> \o encode_html(file.title, self.escape_html)
             \o <<"</a></li>">>)

HasLandmark(file) == file.reftype # None /\ file.title # <<>>

\* EpubBuilder::render_nav: the values given to the nav.xhtml template
render_nav(self, t, numbered) ==
    LET Landmark(f) == LandmarkLine(self, f)
        landmarks == IF self.version = "V30"
                         THEN Map(SelectSeq(self.files, HasLandmark), Landmark)
                         ELSE <<>>
    IN  [content |-> Toc_render(t, numbered, self.escape_html),
         toc_name |-> encode_html(self.metadata.toc_name, self.escape_html),
         generator_attr |->
             encode_double_quoted_attribute(self.metadata.generator),
         landmarks |->
             IF landmarks # <<>>
                 THEN indent(Format(<<Line(<<"<ol>">>), NL,
                                      indent(join(landmarks), 1), NL,
                                      Line(<<"</ol>">>)>>), 2)
                 ELSE EmptyText]

\* "OEBPS/<name>", as Path::new("OEBPS").join(name) writes it
Oebps(name) == Path_join(<<"OEBPS">>, name)

NoDocs == [opf |-> <<>>, ncx |-> <<>>, nav |-> <<>>, toc_xhtml |-> <<>>]

RECURSIVE WriteAll_through(_, _)
\* the files written one after another, a failure being passed over
WriteAll_through(backend, paths) ==
    IF paths = <<>> THEN Ok(backend)
    ELSE WriteAll_through(Zip_write_file(backend, Head(paths), Bytes).val,
                          Tail(paths))

RECURSIVE WriteAll(_, _)
\* the files written one after another, up to the first failure
WriteAll(backend, paths) ==
    IF paths = <<>> THEN Ok(backend)
    ELSE LET w == Zip_write_file(backend, Head(paths), Bytes)
         IN  IF ~w.ok THEN w ELSE WriteAll(w.val, Tail(paths))

\* EpubBuilder::generate; the value of the result is the builder as it is
\* left, the documents rendered (Some) and the bytes written to the writer
EpubBuilder_generate(self, t) ==
    LET s == IF ~self.stylesheet THEN EpubBuilder_stylesheet(self, Bytes)
                                 ELSE Ok(self)
        b == s.val
        docs == [opf |-> Some(render_opf(b)),
                 ncx |-> Some(render_toc(b, t)),
                 nav |-> Some(render_nav(b, t, TRUE)),
                 toc_xhtml |-> IF b.inline_toc
                                   THEN Some(render_nav(b, t, FALSE)) ELSE None]
        w == WriteAll(b.zip,
                 <<Oebps(<<"content.opf">>), Oebps(<<"toc.ncx">>),
                   Oebps(<<"nav.xhtml">>)>>
                 \o (IF b.inline_toc THEN <<Oebps(<<"toc.xhtml">>)>>
                                     ELSE <<>>))
        z == Zip_generate(w.val)
    IN  IF ~s.ok THEN Err(s.err, [self |-> b, docs |-> NoDocs, to |-> None])
        ELSE IF ~w.ok
            THEN Err(w.err, [self |-> [b EXCEPT !.zip = w.val],
                             docs |-> NoDocs, to |-> None])
        ELSE IF ~z.ok
            THEN Err(z.err, [self |-> [b EXCEPT !.zip = w.val],
                             docs |-> NoDocs, to |-> None])
        ELSE Ok([self |-> [b EXCEPT !.zip = w.val], docs |-> docs,
                 to |-> Some(z.val)])

-----------------------------------------------------------------------------
(* The caller's steps *)

NoElement == TocElement_new(<<>>, <<>>)

NoOp(name) ==
    [op |-> name, pre |-> <<>>, self |-> NoElement, arg |-> NoElement,
     res |-> NoElement, numbered |-> FALSE, escape_html |-> FALSE,
     out |-> EmptyText, epre |-> <<>>, zpre |-> <<>>, ok |-> TRUE,
     err |-> "", key |-> "", value |-> <<>>, flag |-> FALSE,
     docs |-> NoDocs, to |-> None, sys |-> NoSystem]

Remove(s, i) == SubSeq(s, 1, i - 1) \o SubSeq(s, i + 1, Len(s))

Url1 == <<"#", "1">>

Title1 == <<"A">>

Init ==
    /\ toc = Toc_new
    /\ pool = <<>>
    /\ added = <<>>
    /\ last = NoOp("init")
    /\ epub = EpubBuilder_new(ZipLibrary_new).val
    /\ zip = ZipLibrary_new
    /\ log = <<>>

\* let e = TocElement::new(url, title)
New(url, title) ==
    /\ pool' = Append(pool, TocElement_new(url, title))
    /\ last' = NoOp("new")
    /\ UNCHANGED <<toc, added, epub, zip, log>>

\* pool[i] = pool[i].level(l)
Level(i, l) ==
    /\ i \in 1..Len(pool)
    /\ pool' = [pool EXCEPT ![i] = TocElement_level(pool[i], l)]
    /\ last' = NoOp("level")
    /\ UNCHANGED <<toc, added, epub, zip, log>>

\* pool[i] = pool[i].child(pool[j]); pool[j] is moved into the call
Child(i, j) ==
    /\ i \in 1..Len(pool)
    /\ j \in 1..Len(pool)
    /\ i # j
    /\ pool' = Remove([pool EXCEPT ![i] = TocElement_child(pool[i], pool[j])], j)
    /\ last' = [NoOp("child") EXCEPT
                    !.self = pool[i], !.arg = pool[j],
                    !.res = TocElement_child(pool[i], pool[j])]
    /\ UNCHANGED <<toc, added, epub, zip, log>>

\* toc.add(pool[i]); pool[i] is moved into the call
Add(i) ==
    /\ i \in 1..Len(pool)
    /\ toc' = Toc_add(toc, pool[i])
    /\ pool' = Remove(pool, i)
    /\ added' = Append(added, pool[i])
    /\ last' = [NoOp("add") EXCEPT !.pre = toc, !.arg = pool[i]]
    /\ UNCHANGED <<epub, zip, log>>

\* pool[i] = pool[i].raw_title(title)
RawTitle(i, title) ==
    /\ i \in 1..Len(pool)
    /\ pool' = [pool EXCEPT ![i] = TocElement_raw_title(pool[i], title)]
    /\ last' = NoOp("raw_title")
    /\ UNCHANGED <<toc, added, epub, zip, log>>

\* toc.render(numbered, escape_html)
Render(numbered, escape_html) ==
    /\ last' = [NoOp("render") EXCEPT
                    !.numbered = numbered, !.escape_html = escape_html,
                    !.out = Toc_render(toc, numbered, escape_html)]
    /\ UNCHANGED <<toc, pool, added, epub, zip, log>>

\* toc.render_epub(escape_html)
RenderEpub(escape_html) ==
    /\ last' = [NoOp("render_epub") EXCEPT
                    !.escape_html = escape_html,
                    !.out = Toc_render_epub(toc, escape_html)]
    /\ UNCHANGED <<toc, pool, added, epub, zip, log>>

\* toc.is_empty()
IsEmpty ==
    /\ last' = [NoOp("is_empty") EXCEPT
                    !.pre = toc, !.flag = Toc_is_empty(toc)]
    /\ UNCHANGED <<toc, pool, added, epub, zip, log>>

\* the nodes created so far
Created == NodeCount(toc) + NodeCount(pool)

Next ==
    \/ /\ Created < MaxNodes
       /\ Len(pool) < MaxPool
       /\ New(Url1, Title1)
    \/ \E i \in 1..MaxPool, l \in Levels : Level(i, l)
    \/ \E i \in 1..MaxPool, j \in 1..MaxPool : Child(i, j)
    \/ \E i \in 1..MaxPool : Add(i)
    \/ IsEmpty

Spec == Init /\ [][Next]_vars

-----------------------------------------------------------------------------
(* The calls of the test toc_simple, with any levels: childless elements   *)
(* "#k" titled "k" are created, given a level and added one after another  *)

UrlOf(k) == <<"#">> \o to_string(k)

TitleOf(k) == to_string(k)

\* elements added in one run of SpecSimple
MaxSimple == 5
\* the levels passed to level() in SpecSimple are 1..MaxSimpleLevel
MaxSimpleLevel == 3

SimpleNext ==
    \/ /\ Created < MaxSimple
       /\ pool = <<>>
       /\ New(UrlOf(Created + 1), TitleOf(Created + 1))
    \/ \E l \in 1..MaxSimpleLevel : Level(1, l)
    \/ Add(1)

SpecSimple == Init /\ [][SimpleNext]_vars

-----------------------------------------------------------------------------
(* Rendering: elements "#k" with or without a title are nested with        *)
(* child() or added, and the Toc is rendered at any time                   *)

\* nodes created in one run of SpecRender or SpecRaw
MaxRenderNodes == 3

Titles == {<<>>, <<"<", "b", " ">>}

RenderNext ==
    \/ /\ Created < MaxRenderNodes
       /\ Len(pool) < MaxPool
       /\ \E t \in Titles : New(UrlOf(Created + 1), t)
    \/ \E i \in 1..MaxPool, j \in 1..MaxPool : Child(i, j)
    \/ \E i \in 1..MaxPool : Add(i)
    \/ \E numbered \in BOOLEAN, escape_html \in BOOLEAN :
           Render(numbered, escape_html)
    \/ \E escape_html \in BOOLEAN : RenderEpub(escape_html)

SpecRender == Init /\ [][RenderNext]_vars

-----------------------------------------------------------------------------
(* Raw titles: elements "#k" titled with markup, with or without a raw     *)
(* title, are nested or added, and the Toc is rendered for toc.ncx         *)

MarkupTitle == <<" ", "<", "b", ">">>

RawTitles == {<<" ", "&", "c">>}

RawNext ==
    \/ /\ Created < MaxRenderNodes
       /\ Len(pool) < MaxPool
       /\ New(UrlOf(Created + 1), MarkupTitle)
    \/ \E i \in 1..MaxPool, r \in RawTitles : RawTitle(i, r)
    \/ \E i \in 1..MaxPool, j \in 1..MaxPool : Child(i, j)
    \/ \E i \in 1..MaxPool : Add(i)
    \/ \E escape_html \in BOOLEAN : RenderEpub(escape_html)

SpecRaw == Init /\ [][RawNext]_vars

-----------------------------------------------------------------------------
(* The calls on an EpubBuilder.  generate takes the builder by value: no   *)
(* call follows it                                                         *)

Alive == last.op # "generate"

\* the record of a builder call: the toc and the builder before it
Called(name) ==
    [NoOp(name) EXCEPT !.pre = toc, !.epre = epub]

Returned(name, r) == [Called(name) EXCEPT !.ok = r.ok, !.err = r.err]

\* the history with one more call: its name, its argument (the file it
\* adds, the value it sets) and whether it returned Ok
Logged(name, arg, ok) ==
    Append(log, [op |-> name, arg |-> arg, ok |-> ok])

NoFile == <<>>

\* builder.epub_version(version)
EpubVersion(version) ==
    /\ Alive
    /\ epub' = EpubBuilder_epub_version(epub, version)
    /\ last' = Called("epub_version")
    /\ log' = Logged("epub_version", NoFile, TRUE)
    /\ UNCHANGED <<toc, pool, added, zip>>

\* builder.epub_direction(direction)
EpubDirection(direction) ==
    /\ Alive
    /\ epub' = EpubBuilder_epub_direction(epub, direction)
    /\ last' = [Called("epub_direction") EXCEPT !.key = direction]
    /\ log' = Logged("epub_direction", direction, TRUE)
    /\ UNCHANGED <<toc, pool, added, zip>>

\* builder.add_metadata_opf(MetadataOpf { name, content })
AddMetadataOpf(name, content) ==
    /\ Alive
    /\ epub' = EpubBuilder_add_metadata_opf(epub,
                   [name |-> name, content |-> content])
    /\ last' = Called("add_metadata_opf")
    /\ log' = Logged("add_metadata_opf", NoFile, TRUE)
    /\ UNCHANGED <<toc, pool, added, zip>>

\* builder.metadata(key, value)
Metadata(key, value) ==
    LET r == EpubBuilder_metadata(epub, key, value)
    IN  /\ Alive
        /\ epub' = r.val
        /\ last' = [Returned("metadata", r) EXCEPT
                        !.key = key, !.value = value]
        /\ log' = Logged("metadata", <<key, value>>, r.ok)
        /\ UNCHANGED <<toc, pool, added, zip>>

\* builder.escape_html(val)
EscapeHtml(val) ==
    /\ Alive
    /\ epub' = EpubBuilder_escape_html(epub, val)
    /\ last' = Called("escape_html")
    /\ log' = Logged("escape_html", NoFile, TRUE)
    /\ UNCHANGED <<toc, pool, added, zip>>

\* builder.stylesheet(content)
Stylesheet ==
    LET r == EpubBuilder_stylesheet(epub, Bytes)
    IN  /\ Alive
        /\ epub' = r.val
        /\ log' = Logged("stylesheet", <<"stylesheet.css">>, r.ok)
        /\ last' = Returned("stylesheet", r)
        /\ UNCHANGED <<toc, pool, added, zip>>

\* builder.inline_toc()
InlineToc ==
    LET r == EpubBuilder_inline_toc(epub, toc)
    IN  /\ Alive
        /\ epub' = r.self
        /\ toc' = r.toc
        /\ added' = Append(added, Last(PreOrder(r.toc)))
        /\ log' = Logged("inline_toc", <<"toc.xhtml">>, TRUE)
        /\ last' = Called("inline_toc")
        /\ UNCHANGED <<pool, zip>>

\* builder.add_resource(path, content, mime_type)
AddResource(path, mime_type) ==
    LET r == EpubBuilder_add_resource(epub, path, Bytes, mime_type)
    IN  /\ Alive
        /\ epub' = r.val
        /\ log' = Logged("add_resource", path, r.ok)
        /\ last' = Returned("add_resource", r)
        /\ UNCHANGED <<toc, pool, added, zip>>

\* builder.add_cover_image(path, content, mime_type)
AddCoverImage(path, mime_type) ==
    LET r == EpubBuilder_add_cover_image(epub, path, Bytes, mime_type)
    IN  /\ Alive
        /\ epub' = r.val
        /\ log' = Logged("add_cover_image", path, r.ok)
        /\ last' = Returned("add_cover_image", r)
        /\ UNCHANGED <<toc, pool, added, zip>>

\* builder.add_content(EpubContent { toc: pool[i], reftype }); pool[i] is
\* moved into the call
AddContent(i, reftype) ==
    /\ i \in 1..Len(pool)
    /\ Alive
    /\ LET r == EpubBuilder_add_content(epub, toc,
                                        EpubContent(pool[i], reftype))
       IN  /\ epub' = r.val.self
           /\ toc' = r.val.toc
           /\ added' = IF r.val.toc # toc THEN Append(added, pool[i])
                                          ELSE added
           /\ log' = Logged("add_content", pool[i].url, r.ok)
           /\ last' = [Returned("add_content", r) EXCEPT !.arg = pool[i]]
    /\ pool' = Remove(pool, i)
    /\ UNCHANGED zip

\* builder.generate(to)
Generate ==
    LET r == EpubBuilder_generate(epub, toc)
    IN  /\ Alive
        /\ epub' = r.val.self
        /\ last' = [Returned("generate", r) EXCEPT
                        !.docs = r.val.docs, !.to = r.val.to]
        /\ log' = Logged("generate", NoFile, r.ok)
        /\ UNCHANGED <<toc, pool, added, zip>>

-----------------------------------------------------------------------------
(* Files: contents (with or without a title, nested with child()),         *)
(* resources, a cover, a stylesheet and the inline toc are given to a      *)
(* builder on either backend, and the book is generated                    *)

Backends == {ZipLibrary_new, ZipCommand_new}

InitBuilder ==
    /\ toc = Toc_new
    /\ pool = <<>>
    /\ added = <<>>
    /\ last = NoOp("init")
    /\ epub \in {EpubBuilder_new(z).val : z \in Backends}
    /\ zip = ZipLibrary_new
    /\ log = <<>>

\* builder calls before generate in one run of SpecFiles
MaxFileCalls == 3

ContentPaths == {<<"c">>, <<"d">>}

ResourcePaths == {<<"c">>, <<"i", "/", "p">>}

CoverPath == <<"i", "/", "p">>

ImagePng == <<"image/png">>

FilesNext ==
    \/ /\ pool = <<>>
       /\ Len(log) < MaxFileCalls
       /\ Alive
       /\ \E url \in ContentPaths, t \in {<<>>, Title1} : New(url, t)
    \/ AddContent(1, None)
    \/ /\ Len(log) < MaxFileCalls
       /\ pool = <<>>
       /\ \/ \E path \in ResourcePaths : AddResource(path, ImagePng)
          \/ AddCoverImage(CoverPath, ImagePng)
          \/ Stylesheet
          \/ InlineToc
    \/ pool = <<>> /\ Generate

SpecFiles == InitBuilder /\ [][FilesNext]_vars

-----------------------------------------------------------------------------
(* Contents: elements with or without a title are nested with child() and  *)
(* given to the builder as contents, with or without a reference type      *)

\* nodes that exist at once in SpecContent
MaxContentNodes == 2
\* builder calls in one run of SpecContent
MaxContentCalls == 2

ContentNext ==
    \/ /\ Created < MaxContentNodes
       /\ Len(pool) < MaxPool
       /\ Len(log) < MaxContentCalls
       /\ \E t \in {<<>>, Title1} : New(UrlOf(Created + 1), t)
    \/ \E i \in 1..MaxPool, j \in 1..MaxPool : Child(i, j)
    \/ \E i \in 1..MaxPool, r \in {None, Some("Text")} : AddContent(i, r)

SpecContent == InitBuilder /\ [][ContentNext]_vars

-----------------------------------------------------------------------------
(* Metadata: metadata(key, value) with the keys the builder knows and one  *)
(* it does not, epub_direction, and generate, on a builder that writes     *)
(* with the zip library                                                    *)

\* metadata and epub_direction calls in one run of SpecMeta
MaxMetaCalls == 2

MetaKeys ==
    {"author", "title", "lang", "direction", "generator", "description",
     "subject", "license", "toc_name", "isbn"}

\* the values tried for a key: words for a direction, texts for the others
MetaValues(key) ==
    IF key = "direction"
        THEN {<<>>, <<"x">>, <<"R", "t", "l">>, <<"l", "t", "r">>}
        ELSE {<<>>, <<"x">>, <<"y">>}

MetaNext ==
    \/ /\ Len(log) < MaxMetaCalls
       /\ \E key \in MetaKeys : \E value \in MetaValues(key) :
              Metadata(key, value)
    \/ /\ Len(log) < MaxMetaCalls
       /\ \E direction \in {"Ltr", "Rtl"} : EpubDirection(direction)
    \/ Generate

SpecMeta == Init /\ [][MetaNext]_vars

-----------------------------------------------------------------------------
(* Attributes: custom <meta> entries, a resource and a content whose       *)
(* names, paths and titles hold markup characters are given to a builder   *)
(* whose escape_html flag is switched, and the book is generated           *)

\* builder calls before generate in one run of SpecAttr
MaxAttrCalls == 3

MarkupNames == {<<"n">>, <<"\"", "<">>}

MarkupPath == <<"a", "\"", "&">>

MarkupMime == <<"m", "\"">>

MarkupUrl == <<"c", "<">>

AttrNext ==
    \/ /\ Len(log) < MaxAttrCalls
       /\ pool = <<>>
       /\ \/ \E val \in BOOLEAN : EscapeHtml(val)
          \/ \E name \in MarkupNames : AddMetadataOpf(name, MarkupPath)
          \/ AddResource(MarkupPath, MarkupMime)
          \/ EpubVersion("V30")
    \/ /\ Len(log) < MaxAttrCalls
       /\ pool = <<>>
       /\ Alive
       /\ New(MarkupUrl, MarkupTitle)
    \/ AddContent(1, Some("Text"))
    \/ pool = <<>> /\ Generate

SpecAttr == Init /\ [][AttrNext]_vars

-----------------------------------------------------------------------------
(* The backends on their own: a caller writes files to a new ZipLibrary or *)
(* ZipCommand and generates the archive; generate takes the backend by     *)
(* value                                                                   *)

ZipAlive == last.op # "zip_generate"

\* zip.write_file(path, content)
ZipWriteFile(path, content) ==
    LET r == Zip_write_file(zip, path, content)
    IN  /\ ZipAlive
        /\ zip' = r.val
        /\ last' = [NoOp("zip_write_file") EXCEPT
                        !.zpre = zip, !.ok = r.ok, !.err = r.err]
        /\ log' = Logged("zip_write_file", path, r.ok)
        /\ UNCHANGED <<toc, pool, added, epub>>

\* zip.generate(to)
ZipGenerate ==
    LET r == Zip_generate(zip)
    IN  /\ ZipAlive
        /\ last' = [NoOp("zip_generate") EXCEPT
                        !.zpre = zip, !.ok = r.ok, !.err = r.err,
                        !.to = IF r.ok THEN Some(r.val) ELSE None]
        /\ log' = Logged("zip_generate", NoFile, r.ok)
        /\ UNCHANGED <<toc, pool, added, epub, zip>>

InitZip ==
    /\ toc = Toc_new
    /\ pool = <<>>
    /\ added = <<>>
    /\ last = NoOp("init")
    /\ epub = EpubBuilder_new(ZipLibrary_new).val
    /\ zip \in Backends
    /\ log = <<>>

\* write_file calls in one run of SpecZip
MaxWrites == 3

ZipPaths == {<<"a">>, <<"b">>, OutputEpub, <<".", ".", "/", "a">>}

ZipNext ==
    \/ /\ Len(log) < MaxWrites
       /\ \E path \in ZipPaths, content \in {Bytes, ZipBytes} :
              ZipWriteFile(path, content)
    \/ ZipGenerate

SpecZip == InitZip /\ [][ZipNext]_vars

-----------------------------------------------------------------------------
(* Reading the Toc: elements "#k" are given a level and added, and the Toc *)
(* is rendered any number of times in between, in both forms; every render *)
(* is kept in the history with the number of adds made before it           *)

\* toc.render(numbered, escape_html) (&mut self), kept in the history
RenderCall(numbered, escape_html) ==
    LET out == Toc_render(toc, numbered, escape_html)
    IN  /\ toc' = toc
        /\ last' = [NoOp("render") EXCEPT
                        !.pre = toc, !.numbered = numbered,
                        !.escape_html = escape_html, !.out = out]
        /\ log' = Logged("render",
                         [numbered |-> numbered, escape_html |-> escape_html,
                          adds |-> Len(added), out |-> out], TRUE)
        /\ UNCHANGED <<pool, added, epub, zip>>

\* toc.render_epub(escape_html) (&mut self), kept in the history
RenderEpubCall(escape_html) ==
    LET out == Toc_render_epub(toc, escape_html)
    IN  /\ toc' = toc
        /\ last' = [NoOp("render_epub") EXCEPT
                        !.pre = toc, !.escape_html = escape_html, !.out = out]
        /\ log' = Logged("render_epub",
                         [numbered |-> FALSE, escape_html |-> escape_html,
                          adds |-> Len(added), out |-> out], TRUE)
        /\ UNCHANGED <<pool, added, epub, zip>>

\* nodes created in one run of SpecRead
MaxReadNodes == 2
\* renders in one run of SpecRead
MaxReads == 3

ReadLevels == {1, 2}

ReadNext ==
    \/ /\ Created < MaxReadNodes
       /\ pool = <<>>
       /\ New(UrlOf(Created + 1), Title1)
    \/ \E l \in ReadLevels : Level(1, l)
    \/ Add(1)
    \/ /\ Len(log) < MaxReads
       /\ pool = <<>>
       /\ \/ \E numbered \in BOOLEAN : RenderCall(numbered, TRUE)
          \/ \E escape_html \in BOOLEAN : RenderEpubCall(escape_html)

SpecRead == Init /\ [][ReadNext]_vars

-----------------------------------------------------------------------------
(* Appending: elements "#k", each with its own url, are given a level,     *)
(* nested with child() or not, and added; the Toc is rendered for toc.ncx  *)

\* nodes created in one run of SpecAppend
MaxAppendNodes == 4

AppendNext ==
    \/ /\ Created < MaxAppendNodes
       /\ Len(pool) < MaxPool
       /\ New(UrlOf(Created + 1), Title1)
    \/ \E l \in ReadLevels : Level(Len(pool), l)
    \/ \E i \in 1..MaxPool : Child(i, i + 1)
    \/ Add(1)
    \/ RenderEpub(TRUE)

SpecAppend == Init /\ [][AppendNext]_vars

-----------------------------------------------------------------------------
(* Generating: a stylesheet, the inline toc and resources, some of them    *)
(* under the names generate itself writes, are given to a builder on       *)
(* either backend, and the book is generated                               *)

\* builder calls before generate in one run of SpecGenerate
MaxGenerateCalls == 3

GeneratedNames == {<<"stylesheet.css">>, <<"nav.xhtml">>, <<"toc.xhtml">>}

GenerateNext ==
    \/ /\ Len(log) < MaxGenerateCalls
       /\ \/ \E path \in GeneratedNames : AddResource(path, ImagePng)
          \/ Stylesheet
          \/ InlineToc
    \/ Generate

SpecGenerate == InitBuilder /\ [][GenerateNext]_vars

-----------------------------------------------------------------------------
(* Choosing the backend: ZipCommandOrLibrary::new on some system, then the *)
(* backend it returned is used                                             *)

\* the commands a caller names: the default one and the one of zip_not_ok
ZipCommands == {<<"zip">>, <<"xkcodpd">>}

Systems ==
    [tempdir : BOOLEAN,
     commands : [ZipCommands -> {"missing", "fails", "works"}],
     library : BOOLEAN]

\* let zip = ZipCommandOrLibrary::new(command)
ZipCommandOrLibraryNew(command) ==
    \E sys \in Systems :
        LET r == ZipCommandOrLibrary_new(command, sys)
        IN  /\ last.op = "init"
            /\ zip' = r.val
            /\ last' = [NoOp("zip_command_or_library_new") EXCEPT
                            !.value = command, !.sys = sys,
                            !.ok = r.ok, !.err = r.err]
            /\ log' = Logged("zip_command_or_library_new", command, r.ok)
            /\ UNCHANGED <<toc, pool, added, epub>>

\* the backend is there once new has returned Ok
Chosen ==
    /\ log # <<>>
    /\ log[1].op = "zip_command_or_library_new"
    /\ log[1].ok

ChooseNext ==
    \/ \E command \in ZipCommands : ZipCommandOrLibraryNew(command)
    \/ /\ Chosen
       /\ Len(log) < MaxWrites
       /\ \E path \in ZipPaths : ZipWriteFile(path, Bytes)
    \/ Chosen /\ ZipGenerate

SpecChoose == Init /\ [][ChooseNext]_vars

-----------------------------------------------------------------------------
(* Vocabulary of the properties *)

SetMax(S) == CHOOSE x \in S : \A y \in S : y <= x

RECURSIVE SpineNodes(_)
\* the rightmost spine of a list of siblings: its last element, that element's
\* last child, and so on
SpineNodes(elems) ==
    IF elems = <<>> THEN <<>>
    ELSE <<Last(elems)>> \o SpineNodes(Last(elems).children)

\* how many spine nodes a walk for level lvl enters: it enters the next one
\* as long as lvl is strictly greater than that node's level
WalkDepth(elems, lvl) ==
    LET S == SpineNodes(elems)
    IN  SetMax({d \in 0..Len(S) : \A k \in 1..d : lvl > S[k].level})

RECURSIVE AppendAtDepth(_, _, _)
\* e appended to the sibling list found d steps down the rightmost spine
AppendAtDepth(elems, d, e) ==
    IF d = 0 THEN Append(elems, e)
    ELSE Append(Front(elems),
                [Last(elems) EXCEPT
                    !.children = AppendAtDepth(Last(elems).children, d - 1, e)])

RECURSIVE AppendChildAtPre(_, _, _)
\* e appended to the children of the k-th node (in document order) of elems
AppendChildAtPre(elems, k, e) ==
    LET h == Head(elems)
        n == NodeCount(<<h>>)
    IN  IF k = 1
            THEN <<[h EXCEPT !.children = Append(h.children, e)]>> \o Tail(elems)
        ELSE IF k <= n
            THEN <<[h EXCEPT !.children = AppendChildAtPre(h.children, k - 1, e)]>>
                     \o Tail(elems)
        ELSE <<h>> \o AppendChildAtPre(Tail(elems), k - n, e)

\* a node without its children
Flat(n) == [level |-> n.level, url |-> n.url, title |-> n.title,
            raw_title |-> n.raw_title]

\* the node of document-order sequence P that holds node k among its children
\* (0 for a top-level node)
ParentIdx(P, k) ==
    SetMax({0} \cup {j \in 1..(k - 1) : j + NodeCount(<<P[j]>>) > k})

RECURSIVE Shifted(_, _)
\* the tree n with delta added to the level of every node
Shifted(n, delta) ==
    [n EXCEPT !.level = n.level + delta,
              !.children = [i \in 1..Len(n.children) |->
                               Shifted(n.children[i], delta)]]

IsAdd == last.op = "add"

IsChild == last.op = "child"

\* the child as the last child() call left it in its parent
Attached == Last(last.res.children)

-----------------------------------------------------------------------------
(* C1: Toc.add(e) walks the rightmost spine: from the top-level list it    *)
(* goes down into the last element as long as the list is non-empty and    *)
(* e.level is strictly greater than that element's level, and appends e to *)
(* the list where it stopped; with an empty Toc or e.level <= the level of *)
(* the last top-level element that list is the top-level list.             *)
C1_AddWalksRightmostSpine ==
    IsAdd =>
        /\ toc = AppendAtDepth(last.pre, WalkDepth(last.pre, last.arg.level),
                               last.arg)
        /\ (last.pre = <<>> \/ last.arg.level <= Last(last.pre).level)
               => toc = Append(last.pre, last.arg)

\* an add that went down two levels of the spine
C1_Witness ==
    /\ IsAdd
    /\ WalkDepth(last.pre, last.arg.level) >= 2

-----------------------------------------------------------------------------
(* C3: Toc.add(e) inserts e as a child of the last element of the Toc, in  *)
(* document order among the nodes present before the call, whose level is  *)
(* strictly inferior to e.level; without such an element e becomes a       *)
(* top-level element.                                                      *)
C3_AddUnderLastInferior ==
    IsAdd =>
        LET P == PreOrder(last.pre)
            inferior == {k \in 1..Len(P) : P[k].level < last.arg.level}
        IN  IF inferior = {}
                THEN toc = Append(last.pre, last.arg)
                ELSE toc = AppendChildAtPre(last.pre, SetMax(inferior), last.arg)

-----------------------------------------------------------------------------
(* C4: Toc.add accepts every level; afterwards the element is in the tree  *)
(* with its level, url and title (and subtree) unchanged, and the node     *)
(* count has grown by one plus the number of descendants it carried.       *)
C4_AddTotalKeepsElement ==
    IsAdd =>
        /\ \E k \in 1..NodeCount(toc) : PreOrder(toc)[k] = last.arg
        /\ NodeCount(toc) = NodeCount(last.pre) + NodeCount(<<last.arg>>)

\* a first entry with a level below 1 that carries a descendant
C4_Witness ==
    /\ IsAdd
    /\ last.pre = <<>>
    /\ last.arg.level <= 0
    /\ last.arg.children # <<>>
    /\ toc = <<last.arg>>

-----------------------------------------------------------------------------
\* the five adds of the test toc_simple have been made
C2_Levels31321 ==
    /\ Len(added) = 5
    /\ [i \in 1..5 |-> added[i].level] = <<3, 1, 3, 2, 1>>
    /\ \A i \in 1..5 : added[i].children = <<>>

(* C2: adding five childless entries A, B, C, D, E with levels 3, 1, 3, 2, *)
(* 1 in that order to an empty Toc yields exactly [A, B[C, D], E].         *)
C2_TocSimpleTree ==
    C2_Levels31321 =>
        toc = <<added[1],
                [added[2] EXCEPT !.children = <<added[3], added[4]>>],
                added[5]>>

\* the five entries have been added
C2_Witness ==
    /\ C2_Levels31321
    /\ IsAdd
    /\ Len(toc) = 3

-----------------------------------------------------------------------------
(* C6: parent.child(c) with c.level <= parent.level sets c.level to        *)
(* parent.level + 1 and shifts every descendant of c by the same delta;    *)
(* with c.level > parent.level no level changes.                           *)
C6_ChildShiftsSubtree ==
    IsChild =>
        Attached = IF last.arg.level <= last.self.level
                       THEN Shifted(last.arg,
                                    last.self.level + 1 - last.arg.level)
                       ELSE last.arg

\* the levels child() leaves in the subtree of c, node by node in document
\* order: c is renumbered to parent.level + 1 when c.level <= parent.level; a
\* child of a renumbered node is renumbered, to its parent's new level + 1,
\* when its level is <= its parent's new level; every other node keeps its level
Renumbered(parent, c) ==
    LET Old == PreOrder(<<c>>)
        R[k \in 1..Len(Old)] ==
            IF k = 1
                THEN [ren |-> c.level <= parent.level,
                      lvl |-> IF c.level <= parent.level
                                 THEN parent.level + 1 ELSE c.level]
                ELSE LET q == R[ParentIdx(Old, k)]
                         r == q.ren /\ Old[k].level <= q.lvl
                     IN  [ren |-> r,
                          lvl |-> IF r THEN q.lvl + 1 ELSE Old[k].level]
    IN  R

(* C6 as amended: parent.child(c) with c.level <= parent.level sets        *)
(* c.level to parent.level + 1; going down from c, a child of a renumbered *)
(* node whose level is <= its parent's new level is set to that new level  *)
(* + 1, and every other descendant keeps its level; the shape and the      *)
(* other fields are kept; with c.level > parent.level nothing changes.     *)
C6_ChildRenumbersDownward ==
    IsChild =>
        LET Old == PreOrder(<<last.arg>>)
            Now == PreOrder(<<Attached>>)
            R == Renumbered(last.self, last.arg)
        IN  /\ Len(Now) = Len(Old)
            /\ \A k \in 1..Len(Old) :
                /\ Now[k].level = R[k].lvl
                /\ Flat(Now[k]) = [Flat(Old[k]) EXCEPT !.level = R[k].lvl]
                /\ Len(Now[k].children) = Len(Old[k].children)
            /\ last.arg.level > last.self.level => Attached = last.arg

\* c was renumbered, one of its children followed and another kept its
\* level, so that its distance to c changed
C6_Witness ==
    /\ IsChild
    /\ last.arg.level <= last.self.level
    /\ Attached.level = last.self.level + 1
    /\ \E i, j \in 1..Len(last.arg.children) :
        /\ Attached.children[i].level # last.arg.children[i].level
        /\ Attached.children[j].level = last.arg.children[j].level

-----------------------------------------------------------------------------
(* C7: after parent.child(c) the attached child's level is parent.level +  *)
(* 1 whatever level c had (a child of level 42 under a level-1 parent ends *)
(* with level 2).                                                          *)
C7_ChildLevelIsParentPlusOne ==
    IsChild => Attached.level = last.self.level + 1

-----------------------------------------------------------------------------
\* where the added element is on the rightmost spine of the Toc
AddedAt == Len(SpineNodes(toc)) - Len(SpineNodes(<<last.arg>>)) + 1

(* C8: when a node is attached under another node its level is strictly   *)
(* greater than the level of that node, for child() (after the             *)
(* renumbering) and for the nesting done by Toc.add.                       *)
C8_AttachedStrictlyDeeper ==
    /\ IsChild => Attached.level > last.res.level
    /\ IsAdd =>
        /\ SpineNodes(toc)[AddedAt] = last.arg
        /\ AddedAt > 1 => last.arg.level > SpineNodes(toc)[AddedAt - 1].level

\* an element that carries children is nested by add under a node that is
\* not a top-level one
C8_Witness ==
    /\ IsAdd
    /\ AddedAt > 2
    /\ last.arg.children # <<>>

-----------------------------------------------------------------------------
(* Reading a rendered text back *)

RECURSIVE Unpad(_)
\* a line without the spaces it starts with
Unpad(line) ==
    IF line # <<>> /\ Head(line) = " " THEN Unpad(Tail(line)) ELSE line

StartsWith(line, token) == Unpad(line) # <<>> /\ Head(Unpad(line)) = token

\* the position of the first token of line that is token
IndexOf(line, token) ==
    CHOOSE i \in 1..Len(line) :
        line[i] = token /\ \A j \in 1..(i - 1) : line[j] # token

\* the tokens of line after its first token and before token
Upto(line, token) == SubSeq(Unpad(line), 2, IndexOf(Unpad(line), token) - 1)

\* the tokens of line after token and before the last token
After(line, token) ==
    SubSeq(Unpad(line), IndexOf(Unpad(line), token) + 1, Len(Unpad(line)) - 1)

DigitValue(c) == CHOOSE d \in 0..9 : Digits[d + 1] = c

RECURSIVE ParseNat(_)
ParseNat(digits) ==
    IF Len(digits) = 1 THEN DigitValue(digits[1])
    ELSE 10 * ParseNat(Front(digits)) + DigitValue(Last(digits))

NavOpen == "<navPoint playOrder=\""

NavMid == "\" id=\"navPoint-"

IsNavLine(line) == StartsWith(line, NavOpen)

IsSrcLine(line) == StartsWith(line, "<content src=\"")

IsTextLine(line) == StartsWith(line, "<text>")

IsLinkLine(line) ==
    StartsWith(line, "<li><a href=\"") \/ StartsWith(line, "<a href=\"")

\* the playOrder attributes of a toc.ncx fragment, in the order of the text
PlayOrders(out) ==
    LET ls == SelectSeq(out, IsNavLine)
    IN  [i \in 1..Len(ls) |-> ParseNat(Upto(ls[i], NavMid))]

\* the numbers of the navPoint-<n> ids
NavIds(out) ==
    LET ls == SelectSeq(out, IsNavLine)
    IN  [i \in 1..Len(ls) |-> ParseNat(After(ls[i], NavMid))]

\* the src attributes
Srcs(out) ==
    LET ls == SelectSeq(out, IsSrcLine)
    IN  [i \in 1..Len(ls) |-> Upto(ls[i], "\"/>")]

\* the navLabel texts
Texts(out) ==
    LET ls == SelectSeq(out, IsTextLine)
    IN  [i \in 1..Len(ls) |-> Upto(ls[i], "</text>")]

\* the href attributes of an HTML list
Hrefs(out) ==
    LET ls == SelectSeq(out, IsLinkLine)
    IN  [i \in 1..Len(ls) |-> Upto(ls[i], "\">")]

RECURSIVE VisibleUrls(_)
\* the urls, in document order, of the nodes that have a title and whose
\* ancestors all have one
VisibleUrls(elems) ==
    IF elems = <<>> THEN <<>>
    ELSE (IF Head(elems).title = <<>> THEN <<>>
          ELSE <<Head(elems).url>> \o VisibleUrls(Head(elems).children))
             \o VisibleUrls(Tail(elems))

\* t is x without the spaces x starts and ends with
IsTrimOf(t, x) ==
    /\ t = <<>> \/ (Head(t) # " " /\ Last(t) # " ")
    /\ \E i \in 1..(Len(x) + 1) :
        /\ \A j \in 1..(i - 1) : x[j] = " "
        /\ \A j \in (i + Len(t))..Len(x) : x[j] = " "
        /\ i + Len(t) - 1 <= Len(x)
        /\ t = SubSeq(x, i, i + Len(t) - 1)

IsRender == last.op = "render"

IsRenderEpub == last.op = "render_epub"

-----------------------------------------------------------------------------
(* C5: Toc.render_epub numbers the nodes so that a pre-order traversal of  *)
(* the whole Toc gets playOrder and navPoint id 1, 2, ..., N, N being the  *)
(* node count; the counter starts at 0 and is not reset per subtree, and   *)
(* TocElement.render_epub called with offset k returns k plus the size of  *)
(* the node's subtree.                                                     *)
C5_PlayOrderIsPreOrder ==
    IsRenderEpub =>
        LET P == PreOrder(toc)
            N == Len(P)
        IN  /\ PlayOrders(last.out) = [k \in 1..N |-> k]
            /\ NavIds(last.out) = [k \in 1..N |-> k]
            /\ Srcs(last.out) = [k \in 1..N |-> P[k].url]
            /\ \A k \in 1..N : \A o \in {k - 1, N} :
                TocElement_render_epub(P[k], o, last.escape_html).n
                    = o + NodeCount(<<P[k]>>)

\* a rendering where the numbering goes on after a nested element
C5_Witness ==
    /\ IsRenderEpub
    /\ Len(toc) >= 2
    /\ toc[1].children # <<>>
    /\ PlayOrders(last.out) = <<1, 2, 3>>

-----------------------------------------------------------------------------
(* C9: a node whose title is empty renders as the empty fragment in the    *)
(* HTML renderer whatever its children, so none of its descendants is in   *)
(* the HTML list; the EPUB-nav renderer still emits a navPoint for it and  *)
(* for each of its descendants and numbers them like any other node.       *)
C9_EmptyTitleHtmlOnly ==
    LET P == PreOrder(toc)
        N == Len(P)
    IN  /\ IsRender =>
            /\ Hrefs(last.out) = VisibleUrls(toc)
            /\ \A k \in 1..N : P[k].title = <<>> =>
                TocElement_render(P[k], last.numbered, last.escape_html)
                    = EmptyText
        /\ IsRenderEpub =>
            /\ Len(Texts(last.out)) = N
            /\ \A k \in 1..N : P[k].title = <<>> =>
                \A m \in k..(k + NodeCount(<<P[k]>>) - 1) :
                    /\ PlayOrders(last.out)[m] = m
                    /\ Srcs(last.out)[m] = P[m].url
                    /\ P[m].raw_title = None =>
                        Texts(last.out)[m] = trim(encode_text(P[m].title))

\* an HTML rendering of a Toc where an untitled element has a titled child
\* and another element is shown, while that child has its navPoint
C9_Witness ==
    /\ IsRender
    /\ Len(toc) = 2
    /\ toc[1].title = <<>>
    /\ toc[1].children # <<>>
    /\ toc[1].children[1].title # <<>>
    /\ Hrefs(last.out) = <<toc[2].url>>
    /\ Srcs(Toc_render_epub(toc, last.escape_html))[2] = toc[1].children[1].url

-----------------------------------------------------------------------------
(* C10: the EPUB-nav rendering of a node with raw_title = Some(X) emits X  *)
(* verbatim, not escaped and in place of title, as the navLabel text, for  *)
(* both values of escape_html, even when title contains markup.            *)
C10_RawTitleVerbatim ==
    IsRenderEpub =>
        \A k \in 1..NodeCount(toc) : PreOrder(toc)[k].raw_title # None =>
            Texts(last.out)[k] = PreOrder(toc)[k].raw_title[1]

(* C10 as amended: the navLabel text of a node with raw_title = Some(X)    *)
(* is X without its leading and trailing whitespace, not escaped and in    *)
(* place of title, for both values of escape_html.                         *)
C10_RawTitleTrimmed ==
    IsRenderEpub =>
        \A k \in 1..NodeCount(toc) : PreOrder(toc)[k].raw_title # None =>
            IsTrimOf(Texts(last.out)[k], PreOrder(toc)[k].raw_title[1])

\* a rendering without escaping of a nested node that has a raw title and
\* markup in its title
C10_Witness ==
    /\ IsRenderEpub
    /\ ~last.escape_html
    /\ toc # <<>>
    /\ toc[1].children # <<>>
    /\ toc[1].children[1].raw_title # None
    /\ "<" \in {toc[1].children[1].title[i] :
                   i \in 1..Len(toc[1].children[1].title)}
    /\ Texts(last.out)[2] = <<"&", "c">>

-----------------------------------------------------------------------------
(* C11: in the EPUB-nav renderer the escape_html flag decides whether      *)
(* titles are HTML-encoded: for a node without raw_title the navLabel text *)
(* is the HTML-escaped title when escape_html is true and the title        *)
(* unchanged when it is false (surrounding whitespace left aside).         *)
C11_EscapeFlagDecidesNavTitle ==
    IsRenderEpub =>
        \A k \in 1..NodeCount(toc) : PreOrder(toc)[k].raw_title = None =>
            IsTrimOf(Texts(last.out)[k],
                     encode_html(PreOrder(toc)[k].title, last.escape_html))

-----------------------------------------------------------------------------
(* C13: Toc.is_empty() is true exactly when the Toc has zero or one        *)
(* top-level element and false for two or more, however many children     *)
(* those elements have; it does not modify the Toc.                        *)
C13_IsEmptyCountsTopLevel ==
    last.op = "is_empty" =>
        /\ last.flag = TRUE <=> (toc = <<>> \/ toc = <<toc[1]>>)
        /\ last.flag = FALSE <=> (\E i, j \in DOMAIN toc : i < j)
        /\ toc = last.pre

\* is_empty answered true for a Toc of three nodes under one top-level
\* element
C13_Witness ==
    /\ last.op = "is_empty"
    /\ last.flag
    /\ Len(toc) = 1
    /\ NodeCount(toc) >= 3

-----------------------------------------------------------------------------
(* Reading content.opf back, and the history of the builder calls *)

IsItemLine(line) == StartsWith(line, "<item media-type=\"")

IsItemrefLine(line) == StartsWith(line, "<itemref idref=\"")

\* the idref attributes of the spine, in the order of the text
ItemrefIds(text) ==
    LET ls == SelectSeq(text, IsItemrefLine)
    IN  [i \in 1..Len(ls) |-> Upto(ls[i], "\"/>")]

\* the href attributes of the manifest, in the order of the text
ItemHrefs(text) ==
    LET ls == SelectSeq(text, IsItemLine)
    IN  [i \in 1..Len(ls) |-> After(ls[i], "\" href=\"")]

IsAddContent == last.op = "add_content" /\ last.ok

\* generate returned Ok: the documents were rendered and the archive written
IsGenerated == last.op = "generate" /\ last.ok

\* the content.opf of the generated book
Opf == last.docs.opf[1]

AddsFile(call) ==
    /\ call.ok
    /\ call.op \in {"add_content", "inline_toc", "add_resource",
                    "add_cover_image", "stylesheet"}

AddsLinear(call) == call.ok /\ call.op \in {"add_content", "inline_toc"}

SetsStylesheet(call) == call.ok /\ call.op = "stylesheet"

\* the files of the calls of a history
FilesOf(calls) == [k \in 1..Len(calls) |-> calls[k].arg]

-----------------------------------------------------------------------------
(* C14: add_content with an empty title leaves the table of contents       *)
(* unchanged (neither the content nor its children are added) while the    *)
(* file is still added to the manifest and the spine; with a non-empty     *)
(* title it performs exactly one Toc.add of the content's TocElement.      *)
C14_UntitledContentSkipsToc ==
    IsAddContent =>
        LET opf == render_opf(epub)
        IN  /\ last.arg.title = <<>> => toc = last.pre
            /\ last.arg.title # <<>> =>
                /\ toc = AppendAtDepth(last.pre,
                             WalkDepth(last.pre, last.arg.level), last.arg)
                /\ NodeCount(toc)
                       = NodeCount(last.pre) + NodeCount(<<last.arg>>)
            /\ Len(epub.files) = Len(last.epre.files) + 1
            /\ Len(ItemHrefs(opf.items)) = Len(epub.files)
            /\ Last(ItemHrefs(opf.items))
                   = encode_double_quoted_attribute(last.arg.url)
            /\ Last(ItemrefIds(opf.itemrefs))
                   = encode_double_quoted_attribute(to_id(last.arg.url))

\* a content without title that has a titled child was added: the Toc is
\* as before, the file is in the manifest
C14_Witness ==
    /\ IsAddContent
    /\ last.arg.title = <<>>
    /\ last.arg.children # <<>>
    /\ last.arg.children[1].title # <<>>
    /\ toc = last.pre
    /\ NodeCount(toc) = 0
    /\ Last(epub.files).file = last.arg.url

-----------------------------------------------------------------------------
(* C15: the spine of content.opf consists exactly of the files added by    *)
(* add_content and inline_toc, in call order, and the manifest lists every *)
(* added file (resources, cover, contents, toc.xhtml, stylesheet) in call  *)
(* order; a resource or a cover image is never in the spine.               *)
C15_SpineIsContentsAndToc ==
    IsGenerated =>
        LET spine == FilesOf(SelectSeq(log, AddsLinear))
            dummy == IF SelectSeq(log, SetsStylesheet) = <<>>
                         THEN <<<<"stylesheet.css">>>> ELSE <<>>
            manifest == FilesOf(SelectSeq(log, AddsFile)) \o dummy
        IN  /\ ItemrefIds(Opf.itemrefs)
                   = [k \in 1..Len(spine) |->
                         encode_double_quoted_attribute(to_id(spine[k]))]
            /\ ItemHrefs(Opf.items)
                   = [k \in 1..Len(manifest) |->
                         encode_double_quoted_attribute(manifest[k])]

\* a book with a resource, a cover and one content: three files and the
\* stylesheet in the manifest, one in the spine
C15_Witness ==
    /\ IsGenerated
    /\ \E k \in 1..Len(log) : log[k].ok /\ log[k].op = "add_resource"
    /\ \E k \in 1..Len(log) : log[k].ok /\ log[k].op = "add_cover_image"
    /\ Len(ItemrefIds(Opf.itemrefs)) = 1
    /\ Len(ItemHrefs(Opf.items)) = 4

-----------------------------------------------------------------------------
\* the idrefs of a spine without those of toc.xhtml
IsContentId(id) == id # to_id(<<"toc.xhtml">>)

\* the contents added among the calls of a history
IsContentCall(call) == call.ok /\ call.op = "add_content"

ContentIds(calls) ==
    LET cs == SelectSeq(calls, IsContentCall)
    IN  [k \in 1..Len(cs) |-> encode_double_quoted_attribute(to_id(cs[k].arg))]

(* C16: toc.xhtml is placed in the spine after exactly the contents added  *)
(* by add_content before the inline_toc call and before all the contents   *)
(* added afterwards: first if inline_toc is called before any content,     *)
(* last if it is called after all of it.                                   *)
C16_InlineTocWhereCalled ==
    IsGenerated =>
        \A k \in 1..Len(log) : log[k].op = "inline_toc" =>
            LET ids == ItemrefIds(Opf.itemrefs)
                p == Len(SelectSeq(SubSeq(log, 1, k), AddsLinear))
            IN  /\ p <= Len(ids)
                /\ ids[p] = to_id(<<"toc.xhtml">>)
                /\ SelectSeq(SubSeq(ids, 1, p - 1), IsContentId)
                       = ContentIds(SubSeq(log, 1, k - 1))
                /\ SelectSeq(SubSeq(ids, p + 1, Len(ids)), IsContentId)
                       = ContentIds(SubSeq(log, k + 1, Len(log)))

\* inline_toc was called between two contents and toc.xhtml is between them
C16_Witness ==
    /\ IsGenerated
    /\ Len(log) = 4
    /\ log[1].ok /\ log[1].op = "add_content"
    /\ log[2].op = "inline_toc"
    /\ log[3].ok /\ log[3].op = "add_content"
    /\ ItemrefIds(Opf.itemrefs)
           = <<to_id(log[1].arg), to_id(<<"toc.xhtml">>), to_id(log[3].arg)>>

-----------------------------------------------------------------------------
IsMetadata == last.op = "metadata"

MultiValued == {"author", "description", "subject"}

SingleValued == {"title", "lang", "generator", "toc_name"}

MetadataFields == DOMAIN Metadata_default

\* the words PageDirection accepts, in any case
IsRtl(v) ==
    Len(v) = 3 /\ v[1] \in {"r", "R"} /\ v[2] \in {"t", "T"}
               /\ v[3] \in {"l", "L"}

IsLtr(v) ==
    Len(v) = 3 /\ v[1] \in {"l", "L"} /\ v[2] \in {"t", "T"}
               /\ v[3] \in {"r", "R"}

-----------------------------------------------------------------------------
(* C18: metadata fails without side effects: a key outside the recognised  *)
(* set returns InvalidMetadataError, the key "direction" with a value      *)
(* other than rtl/ltr (in any case) returns PageDirectionError, and in     *)
(* both cases the metadata and the rest of the builder are unchanged.      *)
C18_MetadataFailsCleanly ==
    IsMetadata =>
        LET unknown == last.key \notin MultiValued \cup SingleValued
                           \cup {"license", "direction"}
            baddir == last.key = "direction"
                          /\ ~IsRtl(last.value) /\ ~IsLtr(last.value)
        IN  /\ unknown => ~last.ok /\ last.err = "InvalidMetadataError"
            /\ baddir => ~last.ok /\ last.err = "PageDirectionError"
            /\ ~last.ok => /\ unknown \/ baddir
                           /\ epub = last.epre
                           /\ toc = last.pre

\* a wrong direction was refused after the direction had been set to rtl,
\* which it still is
C18_Witness ==
    /\ IsMetadata
    /\ ~last.ok
    /\ last.err = "PageDirectionError"
    /\ last.epre.metadata.direction = "Rtl"
    /\ epub.metadata.direction = "Rtl"

-----------------------------------------------------------------------------
\* the calls of the history that change a direction
DirectionChanges ==
    {k \in 1..Len(log) :
        \/ log[k].op = "epub_direction"
        \/ log[k].op = "metadata" /\ log[k].ok /\ log[k].arg[1] = "direction"}

(* C19: after epub_direction(d) the page-progression direction that        *)
(* generate renders into content.opf is d, and "ltr" when no direction was *)
(* ever set, whatever other calls precede or follow except a later         *)
(* direction change.                                                       *)
C19_EpubDirectionRendered ==
    IsGenerated =>
        IF DirectionChanges = {} THEN Opf.direction = <<"l", "t", "r">>
        ELSE LET c == log[SetMax(DirectionChanges)]
             IN  c.op = "epub_direction" =>
                     Opf.direction = PageDirection_to_string(c.arg)

-----------------------------------------------------------------------------
(* The attribute values of the generated documents *)

\* the tokens of line between the first t1 and the first t2
Between(line, t1, t2) ==
    SubSeq(line, IndexOf(line, t1) + 1, IndexOf(line, t2) - 1)

IsMetaLine(line) == StartsWith(line, "<meta name=\"")

IsReferenceLine(line) == StartsWith(line, "<reference type=\"")

IsLandmarkLine(line) == StartsWith(line, "<li><a epub:type=\"")

\* the attribute values of one line of each kind, in the order of the line
ItemAttrs(line) ==
    <<Upto(line, "\" "), Between(line, "id=\"", "\" href=\""),
      After(line, "\" href=\"")>>

MetaAttrs(line) ==
    <<Upto(line, "\" content=\""), After(line, "\" content=\"")>>

ReferenceAttrs(line) ==
    <<Upto(line, "\" title=\""),
      Between(line, "\" title=\"", "\" href=\""), After(line, "\" href=\"")>>

LandmarkAttrs(line) ==
    <<Upto(line, "\" href=\""), Between(line, "\" href=\"", "\">")>>

\* every attribute value written to the documents docs, document by
\* document and line by line
AttributeValues(docs) ==
    LET opf == docs.opf[1]
        ncx == docs.ncx[1]
        nav == docs.nav[1]
    IN  Flatten(Map(SelectSeq(opf.optional, IsMetaLine), MetaAttrs))
            \o Flatten(Map(SelectSeq(opf.items, IsItemLine), ItemAttrs))
            \o ItemrefIds(opf.itemrefs)
            \o Flatten(Map(SelectSeq(opf.guide, IsReferenceLine),
                           ReferenceAttrs))
            \o <<opf.generator_attr, opf.toc_name_attr>>
            \o Srcs(ncx.nav_points)
            \o Hrefs(nav.content)
            \o Flatten(Map(SelectSeq(nav.landmarks, IsLandmarkLine),
                           LandmarkAttrs))
            \o <<nav.generator_attr>>

\* the documents the builder of the last generate call renders when its
\* escape_html flag has that value, everything else being the same
DocsWith(val) ==
    EpubBuilder_generate([last.epre EXCEPT !.escape_html = val],
                         last.pre).val.docs

\* no character that ends the attribute or opens a tag
AttributeEscaped(value) == \A i \in 1..Len(value) : value[i] \notin {"\"", "<"}

(* C12: the escape_html flag never influences attribute values: for two    *)
(* builders that receive the same calls and differ only in escape_html,    *)
(* every attribute value written to the generated documents (hrefs and src *)
(* of TOC entries, manifest ids, hrefs and media-types, guide attributes,  *)
(* name and content of custom <meta> entries) is identical and             *)
(* XML-attribute-escaped.                                                  *)
C12_AttributesIgnoreEscapeFlag ==
    IsGenerated =>
        /\ AttributeValues(DocsWith(TRUE)) = AttributeValues(DocsWith(FALSE))
        /\ \A val \in BOOLEAN :
            LET values == AttributeValues(DocsWith(val))
            IN  \A k \in 1..Len(values) : AttributeEscaped(values[k])

-----------------------------------------------------------------------------
(* C20: with either zip backend the mimetype entry is added by the backend *)
(* itself, is the first entry of the produced archive and is stored        *)
(* uncompressed, for every sequence of write_file calls followed by        *)
(* generate; the ZipLibrary has it from its construction on.               *)
C20_MimetypeFirstStored ==
    /\ zip.kind = "ZipLibrary" => zip.writer[1] = Entry(Mimetype, "Stored")
    /\ (last.op = "zip_generate" /\ last.ok) =>
        /\ last.to[1] # <<>>
        /\ last.to[1][1] = Entry(Mimetype, "Stored")
        /\ \A k \in 2..Len(last.to[1]) : last.to[1][k].name # Mimetype

\* the call of ZipCommandOrLibrary::new whose result the state holds
IsChosen == last.op = "zip_command_or_library_new"

\* creating the ZipCommand and testing the command both succeed
CommandPathWorks ==
    last.sys.tempdir /\ last.sys.commands[last.value] = "works"

\* C21: ZipCommandOrLibrary::new(command) returns the Command variant set up
\* with that command exactly when the temporary directory is created and the
\* command runs and exits successfully; whenever that path fails it returns
\* the Library variant, and it fails only if the library cannot be created
\* either
C21_CommandElseLibrary ==
    IsChosen =>
        /\ CommandPathWorks =>
               /\ last.ok
               /\ zip.kind = "ZipCommand"
               /\ zip.command = last.value
        /\ (~CommandPathWorks /\ last.sys.library) =>
               last.ok /\ zip = ZipLibrary_new
        /\ ~last.ok <=> (~CommandPathWorks /\ ~last.sys.library)

C21_Witness ==
    /\ IsChosen
    /\ last.sys.tempdir
    /\ last.sys.commands[last.value] = "fails"
    /\ last.ok
    /\ zip.kind = "ZipLibrary"

-----------------------------------------------------------------------------
\* the paths written to the backend of a builder so far, in order (the
\* mimetype a ZipLibrary starts with is not one of them)
Written(builder) ==
    IF builder.zip.kind = "ZipLibrary"
        THEN [k \in 1..(Len(builder.zip.writer) - 1) |->
                 builder.zip.writer[k + 1].name]
        ELSE builder.zip.files

IsPrefix(s, t) == Len(s) <= Len(t) /\ SubSeq(t, 1, Len(s)) = s

\* what generate has to write, by the calls made before it
DummyStylesheet ==
    IF SelectSeq(log, SetsStylesheet) = <<>>
        THEN <<Oebps(<<"stylesheet.css">>)>> ELSE <<>>

InlineTocFile ==
    IF \E k \in 1..Len(log) : log[k].op = "inline_toc"
        THEN <<Oebps(<<"toc.xhtml">>)>> ELSE <<>>

ExpectedWrites ==
    DummyStylesheet
    \o <<Oebps(<<"content.opf">>), Oebps(<<"toc.ncx">>),
         Oebps(<<"nav.xhtml">>)>>
    \o InlineTocFile

\* the paths the last call wrote
WrittenByCall ==
    SubSeq(Written(epub), Len(Written(last.epre)) + 1, Len(Written(epub)))

\* C22: generate writes, in this order, the dummy stylesheet (only if no
\* stylesheet was set), content.opf, toc.ncx, nav.xhtml and, if and only if
\* inline_toc was called, toc.xhtml, and finalises the archive after them;
\* every generated manifest lists stylesheet.css; when a step fails the
\* writes stop there, the error is returned and no archive is produced
C22_GenerateWritesInOrder ==
    last.op = "generate" =>
        /\ IsPrefix(Written(last.epre), Written(epub))
        /\ IsPrefix(WrittenByCall, ExpectedWrites)
        /\ last.ok =>
               /\ WrittenByCall = ExpectedWrites
               /\ last.to # None
               /\ \A k \in 1..Len(ExpectedWrites) :
                      \E e \in 1..Len(last.to[1]) :
                          last.to[1][e].name = ExpectedWrites[k]
               /\ \E k \in 1..Len(ItemHrefs(Opf.items)) :
                      ItemHrefs(Opf.items)[k] = <<"stylesheet.css">>
        /\ ~last.ok =>
               /\ last.to = None
               /\ last.docs = NoDocs
               /\ Len(WrittenByCall) < Len(ExpectedWrites) =>
                      ~Zip_write_file(epub.zip,
                           ExpectedWrites[Len(WrittenByCall) + 1], Bytes).ok

C22_Witness ==
    /\ last.op = "generate"
    /\ ~last.ok
    /\ \E k \in 1..Len(log) : log[k].op = "inline_toc"
    /\ WrittenByCall = <<Oebps(<<"stylesheet.css">>),
                         Oebps(<<"content.opf">>), Oebps(<<"toc.ncx">>)>>

-----------------------------------------------------------------------------
\* every child of a node of the list is at a level strictly greater than
\* the node's
StrictlyNested(elems) ==
    \A k \in 1..NodeCount(elems) :
        LET n == PreOrder(elems)[k]
        IN  \A c \in 1..Len(n.children) : n.children[c].level > n.level

\* C23: in every Toc built by Toc.add from elements made with new, level()
\* and child() in any order, each node's level is strictly greater than its
\* parent's level
C23_LevelsStrictlyNested == StrictlyNested(toc)

-----------------------------------------------------------------------------
\* two renders of the history made the same way on the same Toc: the same
\* method with the same arguments and no add between them
SameRender(a, b) ==
    /\ a.op = b.op
    /\ a.arg.numbered = b.arg.numbered
    /\ a.arg.escape_html = b.arg.escape_html
    /\ a.arg.adds = b.arg.adds

-----------------------------------------------------------------------------
\* the nodes of a sequence without their children
Flats(nodes) == [k \in 1..Len(nodes) |-> Flat(nodes[k])]

\* every element passed to Toc::add so far had no children
ChildlessAdds == \A k \in 1..Len(added) : added[k].children = <<>>

\* C25: Toc.add only appends: every node that was in the Toc keeps its
\* place in document order, its parent, its level and the children it had
\* (in their positions), and the added element, with what it carries, comes
\* last in the sibling list of the rightmost spine it went to; so when only
\* childless elements are added, the nodes in pre-order, and the navPoints
\* numbered 1..N of toc.ncx, are the elements in the order they were added
C25_AddOnlyAppends ==
    LET P == PreOrder(last.pre)
        Q == PreOrder(toc)
        n == Len(P)
    IN  /\ IsAdd =>
            /\ Len(Q) = n + NodeCount(<<last.arg>>)
            /\ \A k \in 1..n :
                   /\ Flat(Q[k]) = Flat(P[k])
                   /\ ParentIdx(Q, k) = ParentIdx(P, k)
                   /\ IsPrefix(Flats(P[k].children), Flats(Q[k].children))
            /\ Q[n + 1] = last.arg
            /\ IF ParentIdx(Q, n + 1) = 0 THEN Last(toc) = last.arg
               ELSE Last(Q[ParentIdx(Q, n + 1)].children) = last.arg
            /\ \E d \in 1..Len(SpineNodes(toc)) : SpineNodes(toc)[d] = last.arg
        /\ ChildlessAdds => Flats(Q) = Flats(added)
        /\ (ChildlessAdds /\ IsRenderEpub) =>
            /\ Srcs(last.out) = [k \in 1..Len(added) |->
                   encode_double_quoted_attribute(added[k].url)]
            /\ PlayOrders(last.out) = [k \in 1..Len(added) |-> k]

\* an element that carries a child is added under a node that already has
\* a child
C25_Witness ==
    /\ IsAdd
    /\ Len(last.pre) = 1
    /\ Len(last.pre[1].children) = 1
    /\ last.arg.children # <<>>
    /\ Len(toc[1].children) = 2

====
